---- MODULE Spec2Model ----
(***************************************************************************)
(* Model of scripts/validate_versions.py: the identity normalisation, the  *)
(* line scan of the pre-commit config, the block scan of the guides and    *)
(* the reconciliation loop of main().                                      *)
(*                                                                         *)
(* A Python str is a sequence of one-character strings, so that strip,     *)
(* replace, split, endswith and the regular expressions are computed       *)
(* character by character, the way the interpreter computes them.          *)
(***************************************************************************)
EXTENDS Integers, Sequences, FiniteSets, TLC

VARIABLES
    pc,             \* position of the run
    config,         \* CONFIG_FILE: Missing, Unreadable or its text
    docs,           \* the .md files under GUIDES_DIR, in glob order
    lines,          \* parse_pre_commit_config: content.splitlines()
    lineIdx,        \* parse_pre_commit_config: the line of the for loop
    current_repo,   \* parse_pre_commit_config: the pending identity
    tools,          \* the dict being built, then canonical_versions
    lineLog,        \* history: what each processed config line did
    fileIdx,        \* scan_markdown_files: the file of the for loop
    usage_matches,  \* the list scan_markdown_files builds
    idx,            \* main: the usage of the for loop
    errors,         \* main: errors
    warnings,       \* main: warnings
    output,         \* what has been printed, in order
    trace,          \* history: how each usage was resolved
    status,         \* <<>> while the process runs, then <<its exit status>>
    url,            \* normalize_repo_url: the argument
    once,           \* normalize_repo_url(url)
    twice           \* normalize_repo_url(normalize_repo_url(url))

vars == <<pc, config, docs, lines, lineIdx, current_repo, tools, lineLog,
          fileIdx, usage_matches, idx, errors, warnings, output, trace, status,
          url, once, twice>>

-----------------------------------------------------------------------------
(* Bounds of the model.                                                    *)

\* pieces a raw reference is assembled from
MaxPieces == 3
\* lines of a config text
MaxConfigLines == 4
\* lines of a guide text
MaxDocLines == 4
\* (repo, rev) blocks of the config of a whole run
MaxTools == 2
\* entries (blocks, file boundaries) of the guides of a whole run
MaxItems == 2

-----------------------------------------------------------------------------
(* Python values.                                                          *)

\* None, and the two ways a file can fail to give a text; no str of the model
\* equals them, a str being a sequence of single characters
None == <<"None">>
Missing == <<"Missing">>
Unreadable == <<"Unreadable">>

\* str.isspace / the regular expressions' \s, over the characters of the model
WS == {" ", "\t", "\n"}
\* the line boundaries of str.splitlines and of the regular expressions' .
NL == "\n"

repo_marker == <<"r", "e", "p", "o", ":">>
rev_marker == <<"r", "e", "v", ":">>
git_suffix == <<".", "g", "i", "t">>
github_marker == <<"g", "i", "t", "h", "u", "b", ".", "c", "o", "m", "/">>
slash == <<"/">>

\* bool(x) of a str or None
Truthy(x) == x # None /\ x # <<>>

-----------------------------------------------------------------------------
(* str methods.                                                            *)

\* s[p-1:].startswith(pat), p counted from 1
MatchAt(s, p, pat) ==
    /\ p + Len(pat) - 1 <= Len(s)
    /\ \A i \in 1..Len(pat) : s[p + i - 1] = pat[i]

\* s.find(pat, from), counted from 1; 0 when there is none
Find(s, pat, from) ==
    LET hits == {p \in from..(Len(s) - Len(pat) + 1) : MatchAt(s, p, pat)}
    IN  IF hits = {} THEN 0 ELSE CHOOSE p \in hits : \A q \in hits : p <= q

\* pat in s
Contains(s, pat) == Find(s, pat, 1) # 0

endswith(s, suf) ==
    /\ Len(suf) <= Len(s)
    /\ SubSeq(s, Len(s) - Len(suf) + 1, Len(s)) = suf

RECURSIVE lstrip(_)
lstrip(s) == IF s # <<>> /\ Head(s) \in WS THEN lstrip(Tail(s)) ELSE s

RECURSIVE rstrip(_)
rstrip(s) ==
    IF s # <<>> /\ s[Len(s)] \in WS THEN rstrip(SubSeq(s, 1, Len(s) - 1)) ELSE s

strip(s) == rstrip(lstrip(s))

\* s.replace(old, ""): every non-overlapping occurrence, left to right
RECURSIVE remove(_, _)
remove(s, old) ==
    LET p == Find(s, old, 1)
    IN  IF p = 0 THEN s
        ELSE SubSeq(s, 1, p - 1) \o remove(SubSeq(s, p + Len(old), Len(s)), old)

\* s.split(sep)[-1]: what follows the last occurrence the split cuts at
RECURSIVE split_last(_, _)
split_last(s, sep) ==
    LET p == Find(s, sep, 1)
    IN  IF p = 0 THEN s ELSE split_last(SubSeq(s, p + Len(sep), Len(s)), sep)

-----------------------------------------------------------------------------
(* normalize_repo_url                                                      *)

strip_git(u) == remove(strip(u), git_suffix)

normalize_repo_url(u) ==
    LET v == strip_git(u)
    IN  IF Contains(v, github_marker)
        THEN split_last(v, github_marker)
        ELSE split_last(v, slash)

-----------------------------------------------------------------------------
(* dict, in insertion order: a sequence of [k, v] with no key twice.       *)

dict_keys(d) == {d[i].k : i \in 1..Len(d)}

\* d.get(k)
dict_get(d, k) ==
    IF k \in dict_keys(d)
    THEN (CHOOSE e \in {d[i] : i \in 1..Len(d)} : e.k = k).v
    ELSE None

\* Fault variant of dict_set: d.setdefault(k, v), the first value is kept
dict_setdefault(d, k, v) ==
    IF k \in {d[i].k : i \in 1..Len(d)} THEN d ELSE Append(d, [k |-> k, v |-> v])

\* d[k] = v: a key already there keeps its place and takes the new value
dict_set(d, k, v) ==
    IF k \in dict_keys(d)
    THEN [i \in 1..Len(d) |-> IF d[i].k = k THEN [k |-> k, v |-> v] ELSE d[i]]
    ELSE Append(d, [k |-> k, v |-> v])

-----------------------------------------------------------------------------
(* The regular expressions.                                                *)

\* how many characters of s from position i on are whitespace (\s*, greedy)
RECURSIVE ws_run(_, _)
ws_run(s, i) == IF i <= Len(s) /\ s[i] \in WS THEN 1 + ws_run(s, i + 1) ELSE 0

\* how many characters of s from position i on are not whitespace ([^\s]*)
RECURSIVE token_run(_, _)
token_run(s, i) ==
    IF i <= Len(s) /\ s[i] \notin WS THEN 1 + token_run(s, i + 1) ELSE 0

\* rev:\s+([^\s]+) matched at position p: the token's first and last position
\* (\s+ has to take the whole run of whitespace, [^\s]+ the whole token)
rev_at(s, p) ==
    LET w == ws_run(s, p + Len(rev_marker))
        t == token_run(s, p + Len(rev_marker) + w)
    IN  IF MatchAt(s, p, rev_marker) /\ w >= 1 /\ t >= 1
        THEN [ok |-> TRUE, from |-> p + Len(rev_marker) + w,
              to |-> p + Len(rev_marker) + w + t - 1]
        ELSE [ok |-> FALSE, from |-> 0, to |-> 0]

\* re.search(r'rev:\s+([^\s]+)', line).group(1), None without a match
search_rev(line) ==
    LET hits == {p \in 1..Len(line) : rev_at(line, p).ok}
    IN  IF hits = {} THEN None
        ELSE LET p == CHOOSE p \in hits : \A q \in hits : p <= q
                 m == rev_at(line, p)
             IN  SubSeq(line, m.from, m.to)

\* repo:\s+(.+)$ matched at position p of a line (no line break in it): \s+ is
\* greedy and gives back one character when it would leave (.+) nothing
repo_at(line, p) ==
    LET w == ws_run(line, p + Len(repo_marker))
        k == IF p + Len(repo_marker) + w > Len(line) THEN w - 1 ELSE w
    IN  IF MatchAt(line, p, repo_marker) /\ k >= 1
        THEN [ok |-> TRUE, from |-> p + Len(repo_marker) + k]
        ELSE [ok |-> FALSE, from |-> 0]

\* re.search(r'repo:\s+(.+)$', line).group(1), None without a match
search_repo(line) ==
    LET hits == {p \in 1..Len(line) : repo_at(line, p).ok}
    IN  IF hits = {} THEN None
        ELSE LET p == CHOOSE p \in hits : \A q \in hits : p <= q
             IN  SubSeq(line, repo_at(line, p).from, Len(line))

\* repo:\s+(.+?)\s*\n\s*rev:\s+([^\s]+) matched at position p of a text.
\* g is where group 1 starts (\s+ took g - p - 5 characters) and e where it
\* ends: no line break in it, and from e + 1 on a run of whitespace holding a
\* line break, then the revision. \s+ is greedy (the largest g first), (.+?)
\* lazy (then the smallest e).
block_ok(s, p, g, e) ==
    LET w == ws_run(s, e + 1)
    IN  /\ g <= e /\ e <= Len(s)
        /\ \A i \in g..e : s[i] # NL
        /\ \E i \in (e + 1)..(e + w) : s[i] = NL
        /\ rev_at(s, e + 1 + w).ok

block_at(s, p) ==
    LET first == p + Len(repo_marker)
        w == ws_run(s, first)
        cands == {c \in ((first + 1)..(first + w)) \X (first..Len(s)) :
                      block_ok(s, p, c[1], c[2])}
    IN  IF ~MatchAt(s, p, repo_marker) \/ cands = {}
        THEN [ok |-> FALSE, g1 |-> <<>>, g2 |-> <<>>, end |-> 0]
        ELSE LET c == CHOOSE c \in cands : \A o \in cands :
                          \/ c[1] > o[1]
                          \/ c[1] = o[1] /\ c[2] <= o[2]
                 m == rev_at(s, c[2] + 1 + ws_run(s, c[2] + 1))
             IN  [ok |-> TRUE, g1 |-> SubSeq(s, c[1], c[2]),
                  g2 |-> SubSeq(s, m.from, m.to), end |-> m.to]

\* block_pattern.finditer(content) from position `from` on: the matches, left
\* to right, none overlapping another
RECURSIVE finditer(_, _)
finditer(s, from) ==
    LET p == Find(s, repo_marker, from)
    IN  IF p = 0 THEN <<>>
        ELSE LET m == block_at(s, p)
             IN  IF m.ok THEN <<m>> \o finditer(s, m.end + 1)
                 ELSE finditer(s, p + 1)

\* content.splitlines(): a final line break opens no further line
RECURSIVE splitlines(_)
splitlines(s) ==
    LET p == Find(s, <<NL>>, 1)
    IN  IF s = <<>> THEN <<>>
        ELSE IF p = 0 THEN <<s>>
        ELSE <<SubSeq(s, 1, p - 1)>> \o splitlines(SubSeq(s, p + 1, Len(s)))

-----------------------------------------------------------------------------
(* parse_pre_commit_config: one pass of the for loop over the lines.       *)

\* current_repo and tools after the loop body has run on raw_line, and whether
\* it executed the assignment tools[current_repo] = ...
parse_line(cur, d, raw_line) ==
    LET line == strip(raw_line)
        repo_match == search_repo(line)
        rev_match == search_rev(line)
    IN  IF repo_match # None
        THEN [current_repo |-> normalize_repo_url(repo_match), tools |-> d,
              wrote |-> FALSE]
        ELSE IF Truthy(cur) /\ rev_match # None
        THEN [current_repo |-> None, tools |-> dict_set(d, cur, rev_match),
              wrote |-> TRUE]
        ELSE [current_repo |-> cur, tools |-> d, wrote |-> FALSE]

\* history of one processed line: which of the two patterns it matches (a line
\* matching the first is never tried against the second), the value it carries,
\* and whether the loop body wrote to the dict, under which key
line_event(cur, d, raw_line) ==
    LET line == strip(raw_line)
        is_repo == search_repo(line) # None
        is_rev == ~is_repo /\ search_rev(line) # None
    IN  [repo |-> is_repo,
         rev |-> is_rev,
         value |-> IF is_repo THEN search_repo(line)
                   ELSE IF is_rev THEN search_rev(line) ELSE None,
         wrote |-> parse_line(cur, d, raw_line).wrote,
         key |-> IF parse_line(cur, d, raw_line).wrote THEN cur ELSE None]

-----------------------------------------------------------------------------
(* scan_markdown_files: the usages of one file.                            *)

usage_of(file, m) ==
    [file |-> file, repo_key |-> normalize_repo_url(strip(m.g1)), rev |-> strip(m.g2)]

scan_text(file, content) ==
    LET ms == finditer(content, 1)
    IN  [i \in 1..Len(ms) |-> usage_of(file, ms[i])]

-----------------------------------------------------------------------------
(* main: the body of the loop over the usages.                             *)

suffix_related(repo_key, c_repo) ==
    endswith(repo_key, c_repo) \/ endswith(c_repo, repo_key)

\* Fault variant of possible_match_from: the loop without its break, the last
\* key in the relation from position i on
possible_match_last(d, i, repo_key) ==
    LET hits == {j \in i..Len(d) : suffix_related(repo_key, d[j].k)}
    IN  IF hits = {} THEN None
        ELSE d[CHOOSE j \in hits : \A h \in hits : h <= j].k

\* the for loop with its break: the first key from position i on
RECURSIVE possible_match_from(_, _, _)
possible_match_from(d, i, repo_key) ==
    IF i > Len(d) THEN None
    ELSE IF suffix_related(repo_key, d[i].k) THEN d[i].k
    ELSE possible_match_from(d, i + 1, repo_key)

\* how a usage is resolved: the branch taken, the key and the revision it is
\* compared with, and whether the loop over the keys ran
resolve(d, u) ==
    LET canonical_rev == dict_get(d, u.repo_key)
        possible_match == possible_match_from(d, 1, u.repo_key)
    IN  IF Truthy(canonical_rev)
        THEN [branch |-> "exact", key |-> u.repo_key, rev |-> canonical_rev,
              scanned |-> FALSE]
        ELSE IF Truthy(possible_match)
        THEN [branch |-> "fuzzy", key |-> possible_match,
              rev |-> dict_get(d, possible_match), scanned |-> TRUE]
        ELSE [branch |-> "none", key |-> None, rev |-> None, scanned |-> TRUE]

\* Fault variants of is_mismatch: the comparison of the fuzzy branch left out;
\* the comparison made for an unresolved usage too
is_mismatch_exact_only(u, r) == r.branch = "exact" /\ u.rev # r.rev
is_mismatch_any(u, r) == u.rev # r.rev

\* rev != canonical_rev, rev != c_rev
is_mismatch(u, r) == r.branch # "none" /\ u.rev # r.rev

diagnostic(u, r) ==
    [t |-> IF r.branch = "exact" THEN "MISMATCH" ELSE "MISMATCH (fuzzy match)",
     file |-> u.file, tool |-> u.repo_key, approx |-> r.key,
     guide |-> u.rev, config |-> r.rev]

\* Fault variant of exit_status: warnings fail the run too
exit_status_warn(errs, warns) == IF errs = 0 /\ warns = 0 THEN 0 ELSE 1

\* the status the end of main leaves the process with
exit_status(errs, warns) == IF errs = 0 THEN 0 ELSE 1

summary(errs, warns) ==
    IF errs = 0
    THEN <<[t |-> "SUCCESS", n |-> 0]>>
         \o (IF warns > 0 THEN <<[t |-> "Ignored", n |-> warns]>> ELSE <<>>)
    ELSE <<[t |-> "FAILURE", n |-> errs]>>

-----------------------------------------------------------------------------
(* The inputs of the model.                                                *)

\* the sequences over S of at most n elements
SeqsUpTo(S, n) == UNION {[1..k -> S] : k \in 0..n}

RECURSIVE concat(_)
concat(ss) == IF ss = <<>> THEN <<>> ELSE Head(ss) \o concat(Tail(ss))

\* a text of the given lines, each ended by a line break
text_of(ls) == concat([i \in 1..Len(ls) |-> ls[i] \o <<NL>>])

url_ab == github_marker \o <<"a", "/", "b">>
url_cb == github_marker \o <<"c", "/", "b">>
rev_1 == <<"1">>
rev_2 == <<"2">>

config_repo_line(u) == <<"-", " ">> \o repo_marker \o <<" ">> \o u
config_rev_line(r) == <<" ", " ">> \o rev_marker \o <<" ">> \o r
doc_repo_line(u) == repo_marker \o <<" ">> \o u
doc_rev_line(r) == <<" ">> \o rev_marker \o <<" ">> \o r

\* raw references: concatenations of these
Pieces ==
    {github_marker, git_suffix, slash, <<"a">>, <<"b">>, <<" ">>,
     <<".", "g">>, <<"i", "t">>}

References == {concat(ps) : ps \in SeqsUpTo(Pieces, MaxPieces)}

\* config texts for the line scan: any lines of these shapes
ConfigLines ==
    {config_repo_line(url_ab), config_repo_line(url_ab \o git_suffix),
     config_repo_line(github_marker),
     config_rev_line(rev_1), config_rev_line(rev_2), <<"#">>}

\* ... after nothing, or after one well-formed block
ConfigPrefixes == {<<>>, <<config_repo_line(url_cb), config_rev_line(rev_1)>>}

ParserConfigs ==
    {text_of(pre \o ls) :
         pre \in ConfigPrefixes, ls \in SeqsUpTo(ConfigLines, MaxConfigLines)}

\* guide texts for the block scan: any lines of these shapes
DocLines ==
    {doc_repo_line(url_ab), doc_repo_line(<<"b">>), doc_rev_line(rev_1),
     doc_rev_line(rev_2), <<>>, <<" ">>, <<"x">>}

ScannerDocs == {text_of(ls) : ls \in SeqsUpTo(DocLines, MaxDocLines)}

\* configs of a whole run: well-formed blocks, or no file, or no text
tool_block(b) == <<config_repo_line(b[1]), config_rev_line(b[2])>>

ToolBlocks == {url_ab, url_cb} \X {rev_1, rev_2}

RunConfigs ==
    {Missing, Unreadable}
    \cup {text_of(concat([i \in 1..Len(bs) |-> tool_block(bs[i])])) :
              bs \in SeqsUpTo(ToolBlocks, MaxTools)}

\* guides of a whole run: a directory listing written as a sequence of items,
\* a usage block (of the file being written), the start of a further file, or
\* a file no text can be read from
usage_block(b) == text_of(<<doc_repo_line(b[1]), doc_rev_line(b[2])>>)

\* (the revisions of the config vary, so one revision here gives both the
\* agreeing and the differing usages)
UsageBlocks == {url_ab, <<"b">>, <<"x">>} \X {rev_1}

Items == UsageBlocks \cup {<<"file">>, Unreadable}

RECURSIVE files_of(_, _)
files_of(items, files) ==
    IF items = <<>> THEN files
    ELSE LET it == Head(items)
             n == Len(files)
         IN  IF it = <<"file">> THEN files_of(Tail(items), Append(files, <<>>))
             ELSE IF it = Unreadable
             THEN files_of(Tail(items), Append(files, Unreadable))
             ELSE IF n = 0 \/ files[n] = Unreadable
             THEN files_of(Tail(items), Append(files, usage_block(it)))
             ELSE files_of(Tail(items),
                           [files EXCEPT ![n] = files[n] \o usage_block(it)])

RunDocs == {files_of(is, <<>>) : is \in SeqsUpTo(Items, MaxItems)}

-----------------------------------------------------------------------------
(* The run: main() and the functions it calls.                             *)

\* the state before main() has done anything
Fresh ==
    /\ lines = <<>> /\ lineIdx = 1 /\ current_repo = None /\ tools = <<>>
    /\ lineLog = <<>> /\ fileIdx = 1 /\ usage_matches = <<>> /\ idx = 1
    /\ errors = 0 /\ warnings = 0 /\ output = <<>> /\ trace = <<>>
    /\ status = <<>>

NoCall == url = <<>> /\ once = <<>> /\ twice = <<>>

Init ==
    /\ pc = "main"
    /\ config \in RunConfigs
    /\ docs \in RunDocs
    /\ Fresh /\ NoCall

\* lines 23-25: the config is not there
ConfigNotFound ==
    /\ pc = "main" /\ config = Missing
    /\ output' = <<[t |-> "Validating", n |-> 0], [t |-> "Error: Config file not found", n |-> 0]>>
    /\ status' = <<1>>
    /\ pc' = "done"
    /\ UNCHANGED <<config, docs, lines, lineIdx, current_repo, tools, lineLog,
                   fileIdx, usage_matches, idx, errors, warnings, trace,
                   url, once, twice>>

\* line 27: read_text raises, nothing catches it, the interpreter exits with 1
ConfigReadFault ==
    /\ pc = "main" /\ config = Unreadable
    /\ output' = <<[t |-> "Validating", n |-> 0]>>
    /\ status' = <<1>>
    /\ pc' = "done"
    /\ UNCHANGED <<config, docs, lines, lineIdx, current_repo, tools, lineLog,
                   fileIdx, usage_matches, idx, errors, warnings, trace,
                   url, once, twice>>

\* lines 27-40: the text is read and cut into lines
ReadConfig ==
    /\ pc = "main" /\ config # Missing /\ config # Unreadable
    /\ output' = <<[t |-> "Validating", n |-> 0]>>
    /\ lines' = splitlines(config)
    /\ lineIdx' = 1
    /\ current_repo' = None
    /\ tools' = <<>>
    /\ pc' = "parse"
    /\ UNCHANGED <<config, docs, lineLog, fileIdx, usage_matches, idx, errors,
                   warnings, trace, status, url, once, twice>>

\* lines 42-55: the loop body on the next line
ParseLine ==
    /\ pc = "parse" /\ lineIdx <= Len(lines)
    /\ LET after == parse_line(current_repo, tools, lines[lineIdx])
       IN  /\ current_repo' = after.current_repo
           /\ tools' = after.tools
    /\ lineLog' = Append(lineLog, line_event(current_repo, tools, lines[lineIdx]))
    /\ lineIdx' = lineIdx + 1
    /\ UNCHANGED <<pc, config, docs, lines, fileIdx, usage_matches, idx, errors,
                   warnings, output, trace, status, url, once, twice>>

\* lines 57, 85-89: the dict is returned; an empty one ends the run
ParseReturn ==
    /\ pc = "parse" /\ lineIdx > Len(lines)
    /\ IF tools = <<>>
       THEN /\ output' = Append(output, [t |-> "No versions found", n |-> 0])
            /\ status' = <<1>>
            /\ pc' = "done"
       ELSE /\ output' = Append(output, [t |-> "Loaded", n |-> Len(tools)])
            /\ status' = status
            /\ pc' = "scan"
    /\ fileIdx' = 1
    /\ usage_matches' = <<>>
    /\ UNCHANGED <<config, docs, lines, lineIdx, current_repo, tools, lineLog,
                   idx, errors, warnings, trace, url, once, twice>>

\* lines 70-77: the next file is read and its blocks are appended
ScanFile ==
    /\ pc = "scan" /\ fileIdx <= Len(docs) /\ docs[fileIdx] # Unreadable
    /\ usage_matches' = usage_matches \o scan_text(fileIdx, docs[fileIdx])
    /\ fileIdx' = fileIdx + 1
    /\ UNCHANGED <<pc, config, docs, lines, lineIdx, current_repo, tools,
                   lineLog, idx, errors, warnings, output, trace, status,
                   url, once, twice>>

\* line 71: read_text raises, nothing catches it, the interpreter exits with 1
ScanReadFault ==
    /\ pc = "scan" /\ fileIdx <= Len(docs) /\ docs[fileIdx] = Unreadable
    /\ status' = <<1>>
    /\ pc' = "done"
    /\ UNCHANGED <<config, docs, lines, lineIdx, current_repo, tools, lineLog,
                   fileIdx, usage_matches, idx, errors, warnings, output, trace,
                   url, once, twice>>

\* lines 79, 91-95: the list is returned, the counters start at 0
ScanReturn ==
    /\ pc = "scan" /\ fileIdx > Len(docs)
    /\ output' = Append(output, [t |-> "Found", n |-> Len(usage_matches)])
    /\ errors' = 0
    /\ warnings' = 0
    /\ idx' = 1
    /\ pc' = "reconcile"
    /\ UNCHANGED <<config, docs, lines, lineIdx, current_repo, tools, lineLog,
                   fileIdx, usage_matches, trace, status, url, once, twice>>

\* Fault variant of Reconcile: the run ends at the first mismatch
ReconcileFailFast ==
    /\ pc = "reconcile" /\ idx <= Len(usage_matches)
    /\ LET u == usage_matches[idx]
           r == resolve(tools, u)
       IN  /\ output' = IF is_mismatch(u, r)
                        THEN Append(output, diagnostic(u, r)) ELSE output
           /\ errors' = IF is_mismatch(u, r) THEN errors + 1 ELSE errors
           /\ warnings' = IF r.branch = "none" THEN warnings + 1 ELSE warnings
           /\ trace' = Append(trace, r)
           /\ pc' = IF is_mismatch(u, r) THEN "done" ELSE pc
           /\ status' = IF is_mismatch(u, r) THEN <<1>> ELSE status
    /\ idx' = idx + 1
    /\ UNCHANGED <<config, docs, lines, lineIdx, current_repo, tools,
                   lineLog, fileIdx, usage_matches, url, once, twice>>

\* lines 97-127: the loop body on the next usage
Reconcile ==
    /\ pc = "reconcile" /\ idx <= Len(usage_matches)
    /\ LET u == usage_matches[idx]
           r == resolve(tools, u)
       IN  /\ output' = IF is_mismatch(u, r)
                        THEN Append(output, diagnostic(u, r)) ELSE output
           /\ errors' = IF is_mismatch(u, r) THEN errors + 1 ELSE errors
           /\ warnings' = IF r.branch = "none" THEN warnings + 1 ELSE warnings
           /\ trace' = Append(trace, r)
    /\ idx' = idx + 1
    /\ UNCHANGED <<pc, config, docs, lines, lineIdx, current_repo, tools,
                   lineLog, fileIdx, usage_matches, status, url, once, twice>>

\* lines 129-135: the summary, and the end of the process
Summary ==
    /\ pc = "reconcile" /\ idx > Len(usage_matches)
    /\ output' = output \o summary(errors, warnings)
    /\ status' = <<exit_status(errors, warnings)>>
    /\ pc' = "done"
    /\ UNCHANGED <<config, docs, lines, lineIdx, current_repo, tools, lineLog,
                   fileIdx, usage_matches, idx, errors, warnings, trace,
                   url, once, twice>>

Next ==
    \/ ConfigNotFound
    \/ ConfigReadFault
    \/ ReadConfig
    \/ ParseLine
    \/ ParseReturn
    \/ ScanFile
    \/ ScanReadFault
    \/ ScanReturn
    \/ Reconcile
    \/ Summary

Spec == Init /\ [][Next]_vars

-----------------------------------------------------------------------------
(* parse_pre_commit_config on any lines.                                   *)

InitParse ==
    /\ pc = "main"
    /\ config \in ParserConfigs
    /\ docs = <<>>
    /\ Fresh /\ NoCall

NextParse ==
    \/ ReadConfig
    \/ ParseLine
    \/ ParseReturn

SpecParse == InitParse /\ [][NextParse]_vars

-----------------------------------------------------------------------------
(* scan_markdown_files on one file of any lines: the state main() is in    *)
(* when it calls the function.                                             *)

InitScan ==
    /\ pc = "scan"
    /\ config = text_of(tool_block(<<url_ab, rev_1>>))
    /\ docs \in {<<d>> : d \in ScannerDocs}
    /\ lines = splitlines(config) /\ lineIdx = Len(lines) + 1
    /\ current_repo = None
    /\ tools = <<[k |-> normalize_repo_url(url_ab), v |-> rev_1]>>
    /\ lineLog = <<>> /\ fileIdx = 1 /\ usage_matches = <<>> /\ idx = 1
    /\ errors = 0 /\ warnings = 0 /\ trace = <<>> /\ status = <<>>
    /\ output = <<[t |-> "Validating", n |-> 0], [t |-> "Loaded", n |-> 1]>>
    /\ NoCall

NextScan ==
    \/ ScanFile
    \/ ScanReturn

SpecScan == InitScan /\ [][NextScan]_vars

-----------------------------------------------------------------------------
(* normalize_repo_url on any reference, and on its own result.             *)

InitNorm ==
    /\ pc = "call"
    /\ url \in References
    /\ once = <<>> /\ twice = <<>>
    /\ config = Missing /\ docs = <<>>
    /\ Fresh

Normalize ==
    /\ pc = "call"
    /\ once' = normalize_repo_url(url)
    /\ pc' = "called"
    /\ UNCHANGED <<config, docs, lines, lineIdx, current_repo, tools, lineLog,
                   fileIdx, usage_matches, idx, errors, warnings, output, trace,
                   status, url, twice>>

NormalizeAgain ==
    /\ pc = "called"
    /\ twice' = normalize_repo_url(once)
    /\ pc' = "called twice"
    /\ UNCHANGED <<config, docs, lines, lineIdx, current_repo, tools, lineLog,
                   fileIdx, usage_matches, idx, errors, warnings, output, trace,
                   status, url, once>>

NextNorm ==
    \/ Normalize
    \/ NormalizeAgain

SpecNorm == InitNorm /\ [][NextNorm]_vars

-----------------------------------------------------------------------------
(* Notions the claims are stated in, defined on the inputs and the         *)
(* histories, apart from the operators of the run.                         *)

\* a is a suffix of b
IsSuffix(a, b) == \E n \in 0..Len(b) : SubSeq(b, n + 1, Len(b)) = a

Min(S) == CHOOSE x \in S : \A y \in S : x <= y
Max(S) == CHOOSE x \in S : \A y \in S : x >= y

\* the positions of the map that hold the identity, and those in the suffix
\* relation with it
ExactAt(key) == {j \in 1..Len(tools) : tools[j].k = key}
FuzzyAt(key) ==
    {j \in 1..Len(tools) : IsSuffix(tools[j].k, key) \/ IsSuffix(key, tools[j].k)}

\* the position of the map usage i is resolved to, 0 when to none
ResolvedAt(i) ==
    LET key == usage_matches[i].repo_key
    IN  IF ExactAt(key) # {} THEN Min(ExactAt(key))
        ELSE IF FuzzyAt(key) # {} THEN Min(FuzzyAt(key))
        ELSE 0

Differs(i) ==
    ResolvedAt(i) # 0 /\ usage_matches[i].rev # tools[ResolvedAt(i)].v

Unresolved(i) == ResolvedAt(i) = 0

IsDiagnostic(e) == e.t \in {"MISMATCH", "MISMATCH (fuzzy match)"}
Diagnostics == SelectSeq(output, IsDiagnostic)

\* the usages processed so far
Processed == 1..(idx - 1)

\* scan_markdown_files has returned its list
ListBuilt == \E n \in 1..Len(output) : output[n].t = "Found"

-----------------------------------------------------------------------------
(* Claims about normalize_repo_url (SpecNorm).                             *)

\* C1: normalize_repo_url is idempotent: normalising the result of a
\* normalisation gives that result again, for every reference.
C1_Idempotent == pc = "called twice" => twice = once

\* The operator C6 compares with: the suffix ".git" is removed only where it
\* ends the (stripped) reference; then what follows the hosting marker if there
\* is one, else what follows the last "/".
ref_strip_suffix(u) ==
    LET v == strip(u)
    IN  IF endswith(v, git_suffix) THEN SubSeq(v, 1, Len(v) - Len(git_suffix))
        ELSE v

ref_after_last(v, sep) ==
    LET hits == {p \in 1..Len(v) : MatchAt(v, p, sep)}
    IN  IF hits = {} THEN v ELSE SubSeq(v, Max(hits) + Len(sep), Len(v))

ref_normalize(u) ==
    LET v == ref_strip_suffix(u)
    IN  IF \E p \in 1..Len(v) : MatchAt(v, p, github_marker)
        THEN ref_after_last(v, github_marker)
        ELSE ref_after_last(v, slash)

\* C6: for every reference, normalize_repo_url returns what the reference
\* operator returns: ".git" removed only where trailing, then the text after
\* the hosting marker, else the text after the last "/".
C6_MatchesReference == pc # "call" => once = ref_normalize(url)

-----------------------------------------------------------------------------
(* Claims about parse_pre_commit_config (SpecParse).                       *)

\* the repository-reference lines before line i, and the writes between two lines
RepoLinesBefore(i) == {j \in 1..(i - 1) : lineLog[j].repo}
WroteBetween(j, i) == \E l \in (j + 1)..(i - 1) : lineLog[l].wrote

\* the most recent repository-reference line before line i has not yet been
\* followed by a binding revision line
PendingAt(i) ==
    /\ RepoLinesBefore(i) # {}
    /\ ~WroteBetween(Max(RepoLinesBefore(i)), i)

\* C5: a revision line writes to the map if and only if the most recent
\* repository-reference line before it has not yet been followed by a binding
\* revision line; it then binds to that line's identity. No other line writes.
C5_RevBindsIffPending ==
    \A i \in 1..Len(lineLog) :
        /\ ~lineLog[i].rev => ~lineLog[i].wrote
        /\ lineLog[i].rev => (lineLog[i].wrote <=> PendingAt(i))
        /\ lineLog[i].wrote =>
               lineLog[i].key =
                   normalize_repo_url(lineLog[Max(RepoLinesBefore(i))].value)

\* the lines that wrote to the map, and those that wrote under identity k
Writes == {i \in 1..Len(lineLog) : lineLog[i].wrote}
WritesOf(k) == {i \in Writes : lineLog[i].key = k}

\* C8: whatever has been bound so far, the map holds exactly one entry for
\* each bound identity, and its revision is that of the identity's last
\* binding in file order.
C8_LastBindingWins ==
    /\ \A i, j \in 1..Len(tools) : tools[i].k = tools[j].k => i = j
    /\ {tools[j].k : j \in 1..Len(tools)} = {lineLog[i].key : i \in Writes}
    /\ \A j \in 1..Len(tools) :
           tools[j].v = lineLog[Max(WritesOf(tools[j].k))].value

\* C8's case: the parse is over, one identity was bound twice with different
\* revisions, and another identity was bound before both
C8_Witness ==
    /\ pc = "scan"
    /\ \E h, i, j \in Writes :
           /\ h < i /\ i < j
           /\ lineLog[h].key # lineLog[i].key
           /\ lineLog[i].key = lineLog[j].key
           /\ lineLog[i].value # lineLog[j].value

-----------------------------------------------------------------------------
(* Claims about scan_markdown_files (SpecScan).                            *)

\* a repository-reference line, a revision line of a guide
IsRepoLine(l) == search_repo(strip(l)) # None
IsRevLine(l) == rev_at(lstrip(l), 1).ok

\* the records of the tightly paired blocks of the lines from line i on: a
\* repository-reference line and a revision line right after it
RECURSIVE tight_records(_, _, _)
tight_records(file, ls, i) ==
    IF i >= Len(ls) THEN <<>>
    ELSE IF IsRepoLine(ls[i]) /\ ~IsRevLine(ls[i]) /\ IsRevLine(ls[i + 1])
    THEN <<[file |-> file,
            repo_key |-> normalize_repo_url(search_repo(strip(ls[i]))),
            rev |-> search_rev(strip(ls[i + 1]))]>>
         \o tight_records(file, ls, i + 2)
    ELSE tight_records(file, ls, i + 1)

\* C10: the scanner yields one record for each repository-reference line whose
\* very next line is a revision line, in file order, and no other record: a
\* repository-reference line separated from the next revision line by any
\* line, a blank one included, yields none.
C10_OnlyTightPairs ==
    fileIdx > 1 => usage_matches = tight_records(1, splitlines(docs[1]), 1)

-----------------------------------------------------------------------------
(* Claims about the whole run (Spec).                                      *)

ConfigIsText == config # Missing /\ config # Unreadable
ParsedEmpty == ConfigIsText /\ lineIdx > Len(lines) /\ tools = <<>>
AllProcessed == ListBuilt /\ idx > Len(usage_matches)
\* the scan comes to a file no text can be read from
DocReadFault == tools # <<>> /\ \E i \in 1..Len(docs) : docs[i] = Unreadable

\* C2, as claimed: the exit status is 1 exactly when the config file is
\* missing, or the parsed map is empty, or the error counter is nonzero after
\* all usages have been processed; in every other run it is 0.
C2_AsClaimed ==
    pc = "done" =>
        status = <<IF \/ config = Missing
                      \/ ParsedEmpty
                      \/ (AllProcessed /\ errors # 0)
                   THEN 1 ELSE 0>>

\* C2, amended: the exit status is 1 exactly when the config file is missing,
\* or reading the config or a guide raises, or the parsed map is empty, or the
\* error counter is nonzero after all usages have been processed; in every
\* other run it is 0, whatever the warning counter.
C2_ExitStatus ==
    pc = "done" =>
        status = <<IF \/ config = Missing
                      \/ config = Unreadable
                      \/ ParsedEmpty
                      \/ DocReadFault
                      \/ (AllProcessed /\ errors # 0)
                   THEN 1 ELSE 0>>

\* C2's case: a finished run with warnings and no error
C2_Witness == pc = "done" /\ status = <<0>> /\ warnings > 0 /\ errors = 0

\* the processed usages whose revision differs from the resolved one, and the
\* n-th of them
Differing == {i \in Processed : Differs(i)}
NthDiffering(n) == CHOOSE i \in Differing : Cardinality({j \in Differing : j <= i}) = n

\* C3: once the usages are being processed, the error count is the number of
\* processed usages whose revision differs from their resolved canonical
\* revision, and the diagnostics printed are one for each of them, in order,
\* each naming its usage and the revision it was compared with.
C3_OneDiagnosticPerMismatch ==
    ListBuilt =>
        /\ errors = Cardinality(Differing)
        /\ Len(Diagnostics) = errors
        /\ \A n \in 1..Len(Diagnostics) :
               LET u == usage_matches[NthDiffering(n)]
               IN  /\ Diagnostics[n].file = u.file
                   /\ Diagnostics[n].tool = u.repo_key
                   /\ Diagnostics[n].guide = u.rev
                   /\ Diagnostics[n].config = tools[ResolvedAt(NthDiffering(n))].v

\* C3's case: a finished run in which one usage differs from its fuzzy
\* candidate's revision and another agrees with its exact key's
C3_Witness ==
    /\ pc = "done" /\ errors = 1
    /\ \E i \in Differing : ExactAt(usage_matches[i].repo_key) = {}
    /\ \E i \in Processed :
           ExactAt(usage_matches[i].repo_key) # {} /\ ~Differs(i)

\* C4: every revision in the map is non-empty, so the truthiness test is the
\* presence of the key; a usage whose identity is a key is compared with that
\* key's revision and no scan of the keys takes place; any other usage is
\* compared with the revision of the first key, in the map's order, in the
\* suffix relation with its identity (or with none when there is no such key).
C4_Resolution ==
    /\ \A j \in 1..Len(tools) : Truthy(tools[j].v)
    /\ \A i \in 1..Len(trace) :
           LET key == usage_matches[i].repo_key
           IN  /\ ExactAt(key) # {} =>
                      /\ trace[i].branch = "exact" /\ ~trace[i].scanned
                      /\ trace[i].key = key
                      /\ trace[i].rev = tools[Min(ExactAt(key))].v
               /\ ExactAt(key) = {} /\ FuzzyAt(key) # {} =>
                      /\ trace[i].branch = "fuzzy"
                      /\ trace[i].key = tools[Min(FuzzyAt(key))].k
                      /\ trace[i].rev = tools[Min(FuzzyAt(key))].v
               /\ ExactAt(key) = {} /\ FuzzyAt(key) = {} =>
                      trace[i].branch = "none"

\* C4's case: a processed usage whose identity is no key and is in the suffix
\* relation with two keys of different revisions
C4_Witness ==
    \E i \in 1..Len(trace) :
        LET key == usage_matches[i].repo_key
        IN  /\ ExactAt(key) = {}
            /\ \E a, b \in FuzzyAt(key) : a < b /\ tools[a].v # tools[b].v

\* C7: processing a usage with no exact key and no fuzzy candidate adds one to
\* the warning counter, prints nothing and leaves the error counter alone; the
\* warning count is the number of such usages processed; and the status the
\* summary exits with depends on the error counter alone.
C7_UnresolvedOnlyWarns ==
    /\ [][(pc = "reconcile" /\ idx <= Len(usage_matches) /\ Unresolved(idx))
              => (/\ warnings' = warnings + 1
                  /\ errors' = errors
                  /\ output' = output)]_vars
    /\ [](ListBuilt =>
              warnings = Cardinality({i \in Processed : Unresolved(i)}))
    /\ [](pc = "done" /\ ListBuilt =>
              status = <<IF errors = 0 THEN 0 ELSE 1>>)

\* C7's case: a finished run in which two usages were unresolved
C7_Witness ==
    /\ pc = "done" /\ warnings = 2
    /\ Cardinality({i \in Processed : Unresolved(i)}) = 2

FailurePrinted == \E n \in 1..Len(output) : output[n].t = "FAILURE"

\* C9: the usages are processed one at a time in list order; a diagnostic is
\* printed only by the step that processes the differing usage it is about;
\* once the list is built the process ends, and the failure summary is
\* printed, only when no usage is left; and a finished run has processed
\* every usage of the list.
C9_NoEarlyExit ==
    /\ [][/\ idx' # idx =>
                 /\ idx <= Len(usage_matches)
                 /\ idx' = idx + 1
                 /\ Len(trace') = idx
          /\ Len(Diagnostics') # Len(Diagnostics) =>
                 /\ idx' = idx + 1
                 /\ Differs(idx)
                 /\ Diagnostics' = Append(Diagnostics, Diagnostics'[Len(Diagnostics')])
                 /\ Diagnostics'[Len(Diagnostics')].tool = usage_matches[idx].repo_key
                 /\ Diagnostics'[Len(Diagnostics')].file = usage_matches[idx].file
          /\ (ListBuilt /\ status' # status) => idx > Len(usage_matches)
          /\ (FailurePrinted' /\ ~FailurePrinted) =>
                 /\ idx > Len(usage_matches)
                 /\ status' = <<1>>]_vars
    /\ [](pc = "done" /\ ListBuilt => Len(trace) = Len(usage_matches))

\* C9's case: a finished run whose first usage was a mismatch and whose later
\* usages were processed after it
C9_Witness ==
    /\ pc = "done" /\ Len(usage_matches) >= 2
    /\ Differs(1)
    /\ Len(trace) = Len(usage_matches)
    /\ FailurePrinted

====
